---- MODULE Spec2Model ----
(***************************************************************************)
(* One render of the Satellite Ground Track Tracker page (src/main.py).    *)
(* The script runs top to bottom once per render; every action below is    *)
(* one block of the script, pc is the script's position.  The widget       *)
(* values of the session and the wall clock reading are the inputs of a    *)
(* render and are drawn in Init; the outcome of the catalog download and   *)
(* of each propagation step is drawn where the script asks for it.         *)
(*                                                                         *)
(* Instants are whole seconds since 1970-01-01T00:00:00Z (no leap second   *)
(* falls in the modelled years).  A datetime is the tuple of its fields    *)
(* <<year, month, day, hour, minute, second>>.  A formatted date-time      *)
(* string such as '2026-11-01 01:59:30' is the pair of its two digit       *)
(* groups read as decimal numerals, <<20261101, 15930>>: the fields are    *)
(* zero padded to a fixed width, so the order of the strings is the        *)
(* lexicographic order of the pairs (StrLess).                             *)
(* A text is the sequence of its characters, each a Unicode code point.    *)
(***************************************************************************)
EXTENDS Integers, Sequences, FiniteSets, TLC

VARIABLES
    \* inputs of the render: widget values and the clock
    use_custom_tle, tle_name, tle_text, duration_minutes, time_step,
    selected_tz, start_time,
    \* the script's own state
    pc, selected_satellite_name, satellite, fetches,
    minutes, observation_times, lats, lons, altitudes, timestamps,
    df, out, plotted, info, table, csv, file_name,
    \* the exception that ended the render, if one did
    raised

vars == <<use_custom_tle, tle_name, tle_text, duration_minutes, time_step,
          selected_tz, start_time, pc, selected_satellite_name, satellite,
          fetches, minutes, observation_times, lats, lons, altitudes,
          timestamps, df, out, plotted, info, table, csv, file_name, raised>>

inputs == <<use_custom_tle, tle_name, tle_text, duration_minutes, time_step,
            selected_tz, start_time>>

(* A name of the script that is not bound yet holds a value of its own     *)
(* kind that no binding gives: a table without columns, a plot or a CSV    *)
(* without content, a file name without characters.                        *)
None == "None"
NoFrame == [columns |-> <<>>, rows |-> <<>>]
NoPlot == [title |-> <<>>, points |-> <<>>, bound |-> FALSE]
NoInfo == [satellite |-> <<>>, start |-> <<>>, duration |-> 0, step |-> 0]
NoSatellite == [name |-> <<>>, from |-> "unbound"]
NoText == <<>>

-----------------------------------------------------------------------------
(* Slider ranges, src/main.py:47-48: slider(label, min, max, default, step) *)

DurationMin == 30
DurationMax == 240
DurationInc == 10
StepMin == 10
StepMax == 120
StepInc == 10

Durations == {d \in DurationMin..DurationMax : (d - DurationMin) % DurationInc = 0}
TimeSteps == {s \in StepMin..StepMax : (s - StepMin) % StepInc = 0}

timezone_list == <<"UTC", "Asia/Kolkata", "US/Eastern", "Europe/London">>

-----------------------------------------------------------------------------
(* Calendar arithmetic of datetime / skyfield (proleptic Gregorian).        *)

DaysFromCivil(y, m, d) ==
    LET yy  == IF m <= 2 THEN y - 1 ELSE y
        era == yy \div 400
        yoe == yy - era * 400
        mp  == IF m > 2 THEN m - 3 ELSE m + 9
        doy == (153 * mp + 2) \div 5 + d - 1
        doe == yoe * 365 + yoe \div 4 - yoe \div 100 + doy
    IN  era * 146097 + doe - 719468

CivilFromDays(z) ==
    LET zz  == z + 719468
        era == zz \div 146097
        doe == zz - era * 146097
        yoe == (doe - doe \div 1460 + doe \div 36524 - doe \div 146096) \div 365
        doy == doe - (365 * yoe + yoe \div 4 - yoe \div 100)
        mp  == (5 * doy + 2) \div 153
        d   == doy - (153 * mp + 2) \div 5 + 1
        m   == IF mp < 10 THEN mp + 3 ELSE mp - 9
        y   == yoe + era * 400 + (IF m <= 2 THEN 1 ELSE 0)
    IN  <<y, m, d>>

\* A datetime as its fields <<year, month, day, hour, minute, second>>.
Epoch(dt) ==
    DaysFromCivil(dt[1], dt[2], dt[3]) * 86400 + dt[4] * 3600 + dt[5] * 60 + dt[6]

Fields(t) ==
    LET days == t \div 86400
        sod  == t % 86400
        ymd  == CivilFromDays(days)
    IN  <<ymd[1], ymd[2], ymd[3], sod \div 3600, (sod % 3600) \div 60, sod % 60>>

\* 0 = Sunday ... 6 = Saturday; 1970-01-01 was a Thursday.
Weekday(days) == (days + 4) % 7

\* The first Sunday on or after the given date, as a day number.
SundayOnOrAfter(y, m, d) ==
    LET d0 == DaysFromCivil(y, m, d)
    IN  d0 + ((7 - Weekday(d0)) % 7)

(* pytz.timezone(selected_tz), src/main.py:53, applied by astimezone(tz),   *)
(* src/main.py:68: the zone's offset from UTC in seconds at instant t.      *)
(* US/Eastern: EDT from the second Sunday of March 07:00 UTC to the first   *)
(* Sunday of November 06:00 UTC; Europe/London: BST from the last Sunday of *)
(* March 01:00 UTC to the last Sunday of October 01:00 UTC.                 *)
utcoffset(zone, t) ==
    LET y == Fields(t)[1]
    IN  CASE zone = "UTC" -> 0
          [] zone = "Asia/Kolkata" -> 19800
          [] zone = "US/Eastern" ->
                IF  /\ t >= SundayOnOrAfter(y, 3, 8) * 86400 + 7 * 3600
                    /\ t <  SundayOnOrAfter(y, 11, 1) * 86400 + 6 * 3600
                THEN -14400 ELSE -18000
          [] zone = "Europe/London" ->
                IF  /\ t >= SundayOnOrAfter(y, 3, 25) * 86400 + 3600
                    /\ t <  SundayOnOrAfter(y, 10, 25) * 86400 + 3600
                THEN 3600 ELSE 0

-----------------------------------------------------------------------------
(* Texts.                                                                   *)

(* Characters are code points.  The three tables below are those of the    *)
(* Unicode Character Database 14.0.0 that str.lower() reads, over all     *)
(* code points 0..1114111.                                                  *)

Space == 32
Underscore == 95
CapitalSigma == 931
SmallSigma == 963
FinalSigma == 962
CapitalIDot == 304
SmallI == 105
CombiningDot == 775
UpsilonHook == 978

(* The simple lower-case mapping of single characters, as runs              *)
(* <<first, last, step, delta>>: first, first + step, ..., last each map to *)
(* themselves plus delta.  Every character in no run maps to itself.        *)
(* U+0130 maps to 'i' here; its full mapping, 'i' + U+0307, is in LowerAt.  *)
LowerRuns ==
    <<
       <<65, 90, 1, 32>>, <<192, 214, 1, 32>>, <<216, 222, 1, 32>>,
       <<256, 302, 2, 1>>, <<304, 304, 1, -199>>, <<306, 310, 2, 1>>, <<313, 327, 2, 1>>,
       <<330, 374, 2, 1>>, <<376, 376, 1, -121>>, <<377, 381, 2, 1>>,
       <<385, 385, 1, 210>>, <<386, 388, 2, 1>>, <<390, 390, 1, 206>>,
       <<391, 391, 1, 1>>, <<393, 394, 1, 205>>, <<395, 395, 1, 1>>,
       <<398, 398, 1, 79>>, <<399, 399, 1, 202>>, <<400, 400, 1, 203>>,
       <<401, 401, 1, 1>>, <<403, 403, 1, 205>>, <<404, 404, 1, 207>>,
       <<406, 406, 1, 211>>, <<407, 407, 1, 209>>, <<408, 408, 1, 1>>,
       <<412, 412, 1, 211>>, <<413, 413, 1, 213>>, <<415, 415, 1, 214>>,
       <<416, 420, 2, 1>>, <<422, 422, 1, 218>>, <<423, 423, 1, 1>>,
       <<425, 425, 1, 218>>, <<428, 428, 1, 1>>, <<430, 430, 1, 218>>,
       <<431, 431, 1, 1>>, <<433, 434, 1, 217>>, <<435, 437, 2, 1>>,
       <<439, 439, 1, 219>>, <<440, 440, 1, 1>>, <<444, 444, 1, 1>>,
       <<452, 452, 1, 2>>, <<453, 453, 1, 1>>, <<455, 455, 1, 2>>,
       <<456, 456, 1, 1>>, <<458, 458, 1, 2>>, <<459, 475, 2, 1>>,
       <<478, 494, 2, 1>>, <<497, 497, 1, 2>>, <<498, 500, 2, 1>>,
       <<502, 502, 1, -97>>, <<503, 503, 1, -56>>, <<504, 542, 2, 1>>,
       <<544, 544, 1, -130>>, <<546, 562, 2, 1>>, <<570, 570, 1, 10795>>,
       <<571, 571, 1, 1>>, <<573, 573, 1, -163>>, <<574, 574, 1, 10792>>,
       <<577, 577, 1, 1>>, <<579, 579, 1, -195>>, <<580, 580, 1, 69>>,
       <<581, 581, 1, 71>>, <<582, 590, 2, 1>>, <<880, 882, 2, 1>>,
       <<886, 886, 1, 1>>, <<895, 895, 1, 116>>, <<902, 902, 1, 38>>,
       <<904, 906, 1, 37>>, <<908, 908, 1, 64>>, <<910, 911, 1, 63>>,
       <<913, 929, 1, 32>>, <<931, 939, 1, 32>>, <<975, 975, 1, 8>>,
       <<984, 1006, 2, 1>>, <<1012, 1012, 1, -60>>, <<1015, 1015, 1, 1>>,
       <<1017, 1017, 1, -7>>, <<1018, 1018, 1, 1>>, <<1021, 1023, 1, -130>>,
       <<1024, 1039, 1, 80>>, <<1040, 1071, 1, 32>>, <<1120, 1152, 2, 1>>,
       <<1162, 1214, 2, 1>>, <<1216, 1216, 1, 15>>, <<1217, 1229, 2, 1>>,
       <<1232, 1326, 2, 1>>, <<1329, 1366, 1, 48>>, <<4256, 4293, 1, 7264>>,
       <<4295, 4295, 1, 7264>>, <<4301, 4301, 1, 7264>>, <<5024, 5103, 1, 38864>>,
       <<5104, 5109, 1, 8>>, <<7312, 7354, 1, -3008>>, <<7357, 7359, 1, -3008>>,
       <<7680, 7828, 2, 1>>, <<7838, 7838, 1, -7615>>, <<7840, 7934, 2, 1>>,
       <<7944, 7951, 1, -8>>, <<7960, 7965, 1, -8>>, <<7976, 7983, 1, -8>>,
       <<7992, 7999, 1, -8>>, <<8008, 8013, 1, -8>>, <<8025, 8031, 2, -8>>,
       <<8040, 8047, 1, -8>>, <<8072, 8079, 1, -8>>, <<8088, 8095, 1, -8>>,
       <<8104, 8111, 1, -8>>, <<8120, 8121, 1, -8>>, <<8122, 8123, 1, -74>>,
       <<8124, 8124, 1, -9>>, <<8136, 8139, 1, -86>>, <<8140, 8140, 1, -9>>,
       <<8152, 8153, 1, -8>>, <<8154, 8155, 1, -100>>, <<8168, 8169, 1, -8>>,
       <<8170, 8171, 1, -112>>, <<8172, 8172, 1, -7>>, <<8184, 8185, 1, -128>>,
       <<8186, 8187, 1, -126>>, <<8188, 8188, 1, -9>>, <<8486, 8486, 1, -7517>>,
       <<8490, 8490, 1, -8383>>, <<8491, 8491, 1, -8262>>, <<8498, 8498, 1, 28>>,
       <<8544, 8559, 1, 16>>, <<8579, 8579, 1, 1>>, <<9398, 9423, 1, 26>>,
       <<11264, 11311, 1, 48>>, <<11360, 11360, 1, 1>>, <<11362, 11362, 1, -10743>>,
       <<11363, 11363, 1, -3814>>, <<11364, 11364, 1, -10727>>, <<11367, 11371, 2, 1>>,
       <<11373, 11373, 1, -10780>>, <<11374, 11374, 1, -10749>>, <<11375, 11375, 1, -10783>>,
       <<11376, 11376, 1, -10782>>, <<11378, 11378, 1, 1>>, <<11381, 11381, 1, 1>>,
       <<11390, 11391, 1, -10815>>, <<11392, 11490, 2, 1>>, <<11499, 11501, 2, 1>>,
       <<11506, 11506, 1, 1>>, <<42560, 42604, 2, 1>>, <<42624, 42650, 2, 1>>,
       <<42786, 42798, 2, 1>>, <<42802, 42862, 2, 1>>, <<42873, 42875, 2, 1>>,
       <<42877, 42877, 1, -35332>>, <<42878, 42886, 2, 1>>, <<42891, 42891, 1, 1>>,
       <<42893, 42893, 1, -42280>>, <<42896, 42898, 2, 1>>, <<42902, 42920, 2, 1>>,
       <<42922, 42922, 1, -42308>>, <<42923, 42923, 1, -42319>>, <<42924, 42924, 1, -42315>>,
       <<42925, 42925, 1, -42305>>, <<42926, 42926, 1, -42308>>, <<42928, 42928, 1, -42258>>,
       <<42929, 42929, 1, -42282>>, <<42930, 42930, 1, -42261>>, <<42931, 42931, 1, 928>>,
       <<42932, 42946, 2, 1>>, <<42948, 42948, 1, -48>>, <<42949, 42949, 1, -42307>>,
       <<42950, 42950, 1, -35384>>, <<42951, 42953, 2, 1>>, <<42960, 42960, 1, 1>>,
       <<42966, 42968, 2, 1>>, <<42997, 42997, 1, 1>>, <<65313, 65338, 1, 32>>,
       <<66560, 66599, 1, 40>>, <<66736, 66771, 1, 40>>, <<66928, 66964, 2, 39>>,
       <<66929, 66937, 2, 39>>, <<66941, 66953, 2, 39>>, <<66957, 66961, 2, 39>>,
       <<66965, 66965, 1, 39>>, <<68736, 68786, 1, 64>>, <<71840, 71871, 1, 32>>,
       <<93760, 93791, 1, 32>>, <<125184, 125217, 1, 34>>
    >>

(* The characters with the property Cased, as ranges <<first, last>>.       *)
CasedRanges ==
    <<
       <<65, 90>>, <<97, 122>>, <<170, 170>>, <<181, 181>>, <<186, 186>>,
       <<192, 214>>, <<216, 246>>, <<248, 442>>, <<444, 447>>, <<452, 659>>,
       <<661, 696>>, <<704, 705>>, <<736, 740>>, <<837, 837>>, <<880, 883>>,
       <<886, 887>>, <<890, 893>>, <<895, 895>>, <<902, 902>>, <<904, 906>>,
       <<908, 908>>, <<910, 929>>, <<931, 1013>>, <<1015, 1153>>, <<1162, 1327>>,
       <<1329, 1366>>, <<1376, 1416>>, <<4256, 4293>>, <<4295, 4295>>, <<4301, 4301>>,
       <<4304, 4346>>, <<4349, 4351>>, <<5024, 5109>>, <<5112, 5117>>, <<7296, 7304>>,
       <<7312, 7354>>, <<7357, 7359>>, <<7424, 7615>>, <<7680, 7957>>, <<7960, 7965>>,
       <<7968, 8005>>, <<8008, 8013>>, <<8016, 8023>>, <<8025, 8025>>, <<8027, 8027>>,
       <<8029, 8029>>, <<8031, 8061>>, <<8064, 8116>>, <<8118, 8124>>, <<8126, 8126>>,
       <<8130, 8132>>, <<8134, 8140>>, <<8144, 8147>>, <<8150, 8155>>, <<8160, 8172>>,
       <<8178, 8180>>, <<8182, 8188>>, <<8305, 8305>>, <<8319, 8319>>, <<8336, 8348>>,
       <<8450, 8450>>, <<8455, 8455>>, <<8458, 8467>>, <<8469, 8469>>, <<8473, 8477>>,
       <<8484, 8484>>, <<8486, 8486>>, <<8488, 8488>>, <<8490, 8493>>, <<8495, 8500>>,
       <<8505, 8505>>, <<8508, 8511>>, <<8517, 8521>>, <<8526, 8526>>, <<8544, 8575>>,
       <<8579, 8580>>, <<9398, 9449>>, <<11264, 11492>>, <<11499, 11502>>, <<11506, 11507>>,
       <<11520, 11557>>, <<11559, 11559>>, <<11565, 11565>>, <<42560, 42605>>, <<42624, 42653>>,
       <<42786, 42887>>, <<42891, 42894>>, <<42896, 42954>>, <<42960, 42961>>, <<42963, 42963>>,
       <<42965, 42969>>, <<42997, 42998>>, <<43000, 43002>>, <<43824, 43866>>, <<43868, 43880>>,
       <<43888, 43967>>, <<64256, 64262>>, <<64275, 64279>>, <<65313, 65338>>, <<65345, 65370>>,
       <<66560, 66639>>, <<66736, 66771>>, <<66776, 66811>>, <<66928, 66938>>, <<66940, 66954>>,
       <<66956, 66962>>, <<66964, 66965>>, <<66967, 66977>>, <<66979, 66993>>, <<66995, 67001>>,
       <<67003, 67004>>, <<67456, 67456>>, <<67459, 67461>>, <<67463, 67504>>, <<67506, 67514>>,
       <<68736, 68786>>, <<68800, 68850>>, <<71840, 71903>>, <<93760, 93823>>, <<119808, 119892>>,
       <<119894, 119964>>, <<119966, 119967>>, <<119970, 119970>>, <<119973, 119974>>, <<119977, 119980>>,
       <<119982, 119993>>, <<119995, 119995>>, <<119997, 120003>>, <<120005, 120069>>, <<120071, 120074>>,
       <<120077, 120084>>, <<120086, 120092>>, <<120094, 120121>>, <<120123, 120126>>, <<120128, 120132>>,
       <<120134, 120134>>, <<120138, 120144>>, <<120146, 120485>>, <<120488, 120512>>, <<120514, 120538>>,
       <<120540, 120570>>, <<120572, 120596>>, <<120598, 120628>>, <<120630, 120654>>, <<120656, 120686>>,
       <<120688, 120712>>, <<120714, 120744>>, <<120746, 120770>>, <<120772, 120779>>, <<122624, 122633>>,
       <<122635, 122654>>, <<125184, 125251>>, <<127280, 127305>>, <<127312, 127337>>, <<127344, 127369>>
    >>

(* The characters with the property Case_Ignorable, as ranges.              *)
CaseIgnorableRanges ==
    <<
       <<39, 39>>, <<46, 46>>, <<58, 58>>, <<94, 94>>, <<96, 96>>,
       <<168, 168>>, <<173, 173>>, <<175, 175>>, <<180, 180>>, <<183, 184>>,
       <<688, 879>>, <<884, 885>>, <<890, 890>>, <<900, 901>>, <<903, 903>>,
       <<1155, 1161>>, <<1369, 1369>>, <<1375, 1375>>, <<1425, 1469>>, <<1471, 1471>>,
       <<1473, 1474>>, <<1476, 1477>>, <<1479, 1479>>, <<1524, 1524>>, <<1536, 1541>>,
       <<1552, 1562>>, <<1564, 1564>>, <<1600, 1600>>, <<1611, 1631>>, <<1648, 1648>>,
       <<1750, 1757>>, <<1759, 1768>>, <<1770, 1773>>, <<1807, 1807>>, <<1809, 1809>>,
       <<1840, 1866>>, <<1958, 1968>>, <<2027, 2037>>, <<2042, 2042>>, <<2045, 2045>>,
       <<2070, 2093>>, <<2137, 2139>>, <<2184, 2184>>, <<2192, 2193>>, <<2200, 2207>>,
       <<2249, 2306>>, <<2362, 2362>>, <<2364, 2364>>, <<2369, 2376>>, <<2381, 2381>>,
       <<2385, 2391>>, <<2402, 2403>>, <<2417, 2417>>, <<2433, 2433>>, <<2492, 2492>>,
       <<2497, 2500>>, <<2509, 2509>>, <<2530, 2531>>, <<2558, 2558>>, <<2561, 2562>>,
       <<2620, 2620>>, <<2625, 2626>>, <<2631, 2632>>, <<2635, 2637>>, <<2641, 2641>>,
       <<2672, 2673>>, <<2677, 2677>>, <<2689, 2690>>, <<2748, 2748>>, <<2753, 2757>>,
       <<2759, 2760>>, <<2765, 2765>>, <<2786, 2787>>, <<2810, 2815>>, <<2817, 2817>>,
       <<2876, 2876>>, <<2879, 2879>>, <<2881, 2884>>, <<2893, 2893>>, <<2901, 2902>>,
       <<2914, 2915>>, <<2946, 2946>>, <<3008, 3008>>, <<3021, 3021>>, <<3072, 3072>>,
       <<3076, 3076>>, <<3132, 3132>>, <<3134, 3136>>, <<3142, 3144>>, <<3146, 3149>>,
       <<3157, 3158>>, <<3170, 3171>>, <<3201, 3201>>, <<3260, 3260>>, <<3263, 3263>>,
       <<3270, 3270>>, <<3276, 3277>>, <<3298, 3299>>, <<3328, 3329>>, <<3387, 3388>>,
       <<3393, 3396>>, <<3405, 3405>>, <<3426, 3427>>, <<3457, 3457>>, <<3530, 3530>>,
       <<3538, 3540>>, <<3542, 3542>>, <<3633, 3633>>, <<3636, 3642>>, <<3654, 3662>>,
       <<3761, 3761>>, <<3764, 3772>>, <<3782, 3782>>, <<3784, 3789>>, <<3864, 3865>>,
       <<3893, 3893>>, <<3895, 3895>>, <<3897, 3897>>, <<3953, 3966>>, <<3968, 3972>>,
       <<3974, 3975>>, <<3981, 3991>>, <<3993, 4028>>, <<4038, 4038>>, <<4141, 4144>>,
       <<4146, 4151>>, <<4153, 4154>>, <<4157, 4158>>, <<4184, 4185>>, <<4190, 4192>>,
       <<4209, 4212>>, <<4226, 4226>>, <<4229, 4230>>, <<4237, 4237>>, <<4253, 4253>>,
       <<4348, 4348>>, <<4957, 4959>>, <<5906, 5908>>, <<5938, 5939>>, <<5970, 5971>>,
       <<6002, 6003>>, <<6068, 6069>>, <<6071, 6077>>, <<6086, 6086>>, <<6089, 6099>>,
       <<6103, 6103>>, <<6109, 6109>>, <<6155, 6159>>, <<6211, 6211>>, <<6277, 6278>>,
       <<6313, 6313>>, <<6432, 6434>>, <<6439, 6440>>, <<6450, 6450>>, <<6457, 6459>>,
       <<6679, 6680>>, <<6683, 6683>>, <<6742, 6742>>, <<6744, 6750>>, <<6752, 6752>>,
       <<6754, 6754>>, <<6757, 6764>>, <<6771, 6780>>, <<6783, 6783>>, <<6823, 6823>>,
       <<6832, 6862>>, <<6912, 6915>>, <<6964, 6964>>, <<6966, 6970>>, <<6972, 6972>>,
       <<6978, 6978>>, <<7019, 7027>>, <<7040, 7041>>, <<7074, 7077>>, <<7080, 7081>>,
       <<7083, 7085>>, <<7142, 7142>>, <<7144, 7145>>, <<7149, 7149>>, <<7151, 7153>>,
       <<7212, 7219>>, <<7222, 7223>>, <<7288, 7293>>, <<7376, 7378>>, <<7380, 7392>>,
       <<7394, 7400>>, <<7405, 7405>>, <<7412, 7412>>, <<7416, 7417>>, <<7468, 7530>>,
       <<7544, 7544>>, <<7579, 7679>>, <<8125, 8125>>, <<8127, 8129>>, <<8141, 8143>>,
       <<8157, 8159>>, <<8173, 8175>>, <<8189, 8190>>, <<8203, 8207>>, <<8216, 8217>>,
       <<8228, 8228>>, <<8231, 8231>>, <<8234, 8238>>, <<8288, 8292>>, <<8294, 8303>>,
       <<8305, 8305>>, <<8319, 8319>>, <<8336, 8348>>, <<8400, 8432>>, <<11388, 11389>>,
       <<11503, 11505>>, <<11631, 11631>>, <<11647, 11647>>, <<11744, 11775>>, <<11823, 11823>>,
       <<12293, 12293>>, <<12330, 12333>>, <<12337, 12341>>, <<12347, 12347>>, <<12441, 12446>>,
       <<12540, 12542>>, <<40981, 40981>>, <<42232, 42237>>, <<42508, 42508>>, <<42607, 42610>>,
       <<42612, 42621>>, <<42623, 42623>>, <<42652, 42655>>, <<42736, 42737>>, <<42752, 42785>>,
       <<42864, 42864>>, <<42888, 42890>>, <<42994, 42996>>, <<43000, 43001>>, <<43010, 43010>>,
       <<43014, 43014>>, <<43019, 43019>>, <<43045, 43046>>, <<43052, 43052>>, <<43204, 43205>>,
       <<43232, 43249>>, <<43263, 43263>>, <<43302, 43309>>, <<43335, 43345>>, <<43392, 43394>>,
       <<43443, 43443>>, <<43446, 43449>>, <<43452, 43453>>, <<43471, 43471>>, <<43493, 43494>>,
       <<43561, 43566>>, <<43569, 43570>>, <<43573, 43574>>, <<43587, 43587>>, <<43596, 43596>>,
       <<43632, 43632>>, <<43644, 43644>>, <<43696, 43696>>, <<43698, 43700>>, <<43703, 43704>>,
       <<43710, 43711>>, <<43713, 43713>>, <<43741, 43741>>, <<43756, 43757>>, <<43763, 43764>>,
       <<43766, 43766>>, <<43867, 43871>>, <<43881, 43883>>, <<44005, 44005>>, <<44008, 44008>>,
       <<44013, 44013>>, <<64286, 64286>>, <<64434, 64450>>, <<65024, 65039>>, <<65043, 65043>>,
       <<65056, 65071>>, <<65106, 65106>>, <<65109, 65109>>, <<65279, 65279>>, <<65287, 65287>>,
       <<65294, 65294>>, <<65306, 65306>>, <<65342, 65342>>, <<65344, 65344>>, <<65392, 65392>>,
       <<65438, 65439>>, <<65507, 65507>>, <<65529, 65531>>, <<66045, 66045>>, <<66272, 66272>>,
       <<66422, 66426>>, <<67456, 67461>>, <<67463, 67504>>, <<67506, 67514>>, <<68097, 68099>>,
       <<68101, 68102>>, <<68108, 68111>>, <<68152, 68154>>, <<68159, 68159>>, <<68325, 68326>>,
       <<68900, 68903>>, <<69291, 69292>>, <<69446, 69456>>, <<69506, 69509>>, <<69633, 69633>>,
       <<69688, 69702>>, <<69744, 69744>>, <<69747, 69748>>, <<69759, 69761>>, <<69811, 69814>>,
       <<69817, 69818>>, <<69821, 69821>>, <<69826, 69826>>, <<69837, 69837>>, <<69888, 69890>>,
       <<69927, 69931>>, <<69933, 69940>>, <<70003, 70003>>, <<70016, 70017>>, <<70070, 70078>>,
       <<70089, 70092>>, <<70095, 70095>>, <<70191, 70193>>, <<70196, 70196>>, <<70198, 70199>>,
       <<70206, 70206>>, <<70367, 70367>>, <<70371, 70378>>, <<70400, 70401>>, <<70459, 70460>>,
       <<70464, 70464>>, <<70502, 70508>>, <<70512, 70516>>, <<70712, 70719>>, <<70722, 70724>>,
       <<70726, 70726>>, <<70750, 70750>>, <<70835, 70840>>, <<70842, 70842>>, <<70847, 70848>>,
       <<70850, 70851>>, <<71090, 71093>>, <<71100, 71101>>, <<71103, 71104>>, <<71132, 71133>>,
       <<71219, 71226>>, <<71229, 71229>>, <<71231, 71232>>, <<71339, 71339>>, <<71341, 71341>>,
       <<71344, 71349>>, <<71351, 71351>>, <<71453, 71455>>, <<71458, 71461>>, <<71463, 71467>>,
       <<71727, 71735>>, <<71737, 71738>>, <<71995, 71996>>, <<71998, 71998>>, <<72003, 72003>>,
       <<72148, 72151>>, <<72154, 72155>>, <<72160, 72160>>, <<72193, 72202>>, <<72243, 72248>>,
       <<72251, 72254>>, <<72263, 72263>>, <<72273, 72278>>, <<72281, 72283>>, <<72330, 72342>>,
       <<72344, 72345>>, <<72752, 72758>>, <<72760, 72765>>, <<72767, 72767>>, <<72850, 72871>>,
       <<72874, 72880>>, <<72882, 72883>>, <<72885, 72886>>, <<73009, 73014>>, <<73018, 73018>>,
       <<73020, 73021>>, <<73023, 73029>>, <<73031, 73031>>, <<73104, 73105>>, <<73109, 73109>>,
       <<73111, 73111>>, <<73459, 73460>>, <<78896, 78904>>, <<92912, 92916>>, <<92976, 92982>>,
       <<92992, 92995>>, <<94031, 94031>>, <<94095, 94111>>, <<94176, 94177>>, <<94179, 94180>>,
       <<110576, 110579>>, <<110581, 110587>>, <<110589, 110590>>, <<113821, 113822>>, <<113824, 113827>>,
       <<118528, 118573>>, <<118576, 118598>>, <<119143, 119145>>, <<119155, 119170>>, <<119173, 119179>>,
       <<119210, 119213>>, <<119362, 119364>>, <<121344, 121398>>, <<121403, 121452>>, <<121461, 121461>>,
       <<121476, 121476>>, <<121499, 121503>>, <<121505, 121519>>, <<122880, 122886>>, <<122888, 122904>>,
       <<122907, 122913>>, <<122915, 122916>>, <<122918, 122922>>, <<123184, 123197>>, <<123566, 123566>>,
       <<123628, 123631>>, <<125136, 125142>>, <<125252, 125259>>, <<127995, 127999>>, <<917505, 917505>>,
       <<917536, 917631>>, <<917760, 917999>>
    >>

Cased(c) ==
    \E k \in 1..Len(CasedRanges) : CasedRanges[k][1] <= c /\ c <= CasedRanges[k][2]

CaseIgnorable(c) ==
    \E k \in 1..Len(CaseIgnorableRanges) :
        CaseIgnorableRanges[k][1] <= c /\ c <= CaseIgnorableRanges[k][2]

InLowerRun(c, r) == r[1] <= c /\ c <= r[2] /\ (c - r[1]) % r[3] = 0

\* The simple lower-case mapping of one character: the first character
\* str.lower() writes for it when it stands alone.
LowerChar(c) ==
    IF \E k \in 1..Len(LowerRuns) : InLowerRun(c, LowerRuns[k])
    THEN c + LowerRuns[CHOOSE k \in 1..Len(LowerRuns) : InLowerRun(c, LowerRuns[k])][4]
    ELSE c

(* The capital sigma at position k of s is in the Final_Sigma context: the  *)
(* nearest character before it that is not case-ignorable exists and is     *)
(* cased, and the nearest one after it that is not case-ignorable does not  *)
(* exist or is not cased.                                                   *)
InFinalSigmaContext(s, k) ==
    LET before == {j \in 1..(k - 1) : ~CaseIgnorable(s[j])}
        after  == {j \in (k + 1)..Len(s) : ~CaseIgnorable(s[j])}
    IN  /\ before # {}
        /\ Cased(s[CHOOSE j \in before : \A m \in before : m <= j])
        /\ \/ after = {}
           \/ ~Cased(s[CHOOSE j \in after : \A m \in after : j <= m])

(* What str.lower() writes for the character at position k of s: U+0130 is  *)
(* the one character whose lower-case form is two characters, the capital   *)
(* sigma the one whose form depends on its place.                           *)
LowerAt(s, k) ==
    CASE s[k] = CapitalSigma ->
            <<IF InFinalSigmaContext(s, k) THEN FinalSigma ELSE SmallSigma>>
      [] s[k] = CapitalIDot -> <<SmallI, CombiningDot>>
      [] OTHER -> <<LowerChar(s[k])>>

RECURSIVE LowerUpTo(_, _)
LowerUpTo(s, n) ==
    IF n = 0 THEN <<>> ELSE LowerUpTo(s, n - 1) \o LowerAt(s, n)

\* str.lower(), src/main.py:113
lower(s) == LowerUpTo(s, Len(s))

\* str.replace(old, new) for one-character old and new, src/main.py:113
replace(s, old, new) == [k \in 1..Len(s) |-> IF s[k] = old THEN new ELSE s[k]]

\* '_ground_track.csv'
Suffix == <<95, 103, 114, 111, 117, 110, 100, 95, 116, 114, 97, 99, 107, 46, 99, 115, 118>>

FileNameKeepCase(name) == replace(name, Space, Underscore) \o Suffix

\* file_name of the download button, src/main.py:113
FileName(name) == lower(replace(name, Space, Underscore)) \o Suffix

-----------------------------------------------------------------------------
(* Input domains.                                                           *)

\* The default of the "Satellite Name" text input, src/main.py:28
DefaultName == <<67, 85, 83, 84, 79, 77, 95, 83, 65, 84>>

\* The text inputs of the two TLE lines, src/main.py:29-30, as what
\* EarthSatellite makes of them: it builds a satellite or it raises.
TLETexts == {"wellformed", "malformed"}

\* EarthSatellite(tle_line1, tle_line2, tle_name) raises, src/main.py:32
EarthSatelliteRaises(text) == text = "malformed"

\* What load.tle_file(tle_url) can give, src/main.py:40: a failure of the
\* download, or the catalog's satellites by name (possibly none).
FetchResults ==
    { [raised |-> TRUE, by_name |-> {}],
      [raised |-> FALSE, by_name |-> {}],
      [raised |-> FALSE,
       \* 'ISS (ZARYA)', 'CSS (TIANHE)'
       by_name |-> { <<73, 83, 83, 32, 40, 90, 65, 82, 89, 65, 41>>,
                     <<67, 83, 83, 32, 40, 84, 73, 65, 78, 72, 69, 41>> }] }

\* Wall clock readings of datetime.now(pytz.utc), src/main.py:57.
StartTimes ==
    { <<2026, 10, 31, 12,  0,  0>>,     \* second 0 of a minute
      <<2026, 12, 31, 23, 40, 59>>,     \* the window crosses a year end
      <<2026, 11,  1,  5, 45, 17>>,     \* US/Eastern leaves DST at 06:00 UTC
      <<2026, 10, 25,  0, 50, 30>>,     \* Europe/London leaves DST at 01:00 UTC
      <<2027,  3, 14,  6, 45,  1>>,     \* US/Eastern enters DST at 07:00 UTC
      <<2027,  3, 28,  0, 45, 44>> }    \* Europe/London enters DST at 01:00 UTC

\* How many slider positions the default specification explores: the
\* durations from the shortest up, the time steps from the longest down.
GridDurations == 2
GridSteps == 2

SomeDurations == {d \in Durations : d < DurationMin + GridDurations * DurationInc}
SomeTimeSteps == {s \in TimeSteps : s > StepMax - GridSteps * StepInc}

\* Names typed into the "Satellite Name" text input.
\* A, z, space, underscore, 7, the case-ignorable apostrophe and circumflex,
\* U+00C9 (E acute), U+00DF (sharp s: cased, and str.lower() keeps it),
\* U+0130, U+03A3, U+03D2
Alphabet == {65, 122, Space, Underscore, 55, 39, 94, 201, 223,
             CapitalIDot, CapitalSigma, UpsilonHook}
MaxNameLen == 3

RECURSIVE TextsUpTo(_)
TextsUpTo(n) ==
    IF n = 0 THEN { <<>> }
    ELSE LET shorter == TextsUpTo(n - 1)
         IN  shorter \cup { Append(s, c) : s \in shorter, c \in Alphabet }

\* 'CUSTOM_SAT', 'My Sat 1'
SomeNames == { DefaultName, <<77, 121, 32, 83, 97, 116, 32, 49>> }

-----------------------------------------------------------------------------
(* The script.                                                              *)

InitOf(names, durations, steps, zones, starts) ==
    /\ use_custom_tle \in BOOLEAN
    /\ tle_name \in (IF use_custom_tle THEN names ELSE {DefaultName})
    /\ tle_text \in (IF use_custom_tle THEN TLETexts ELSE {"wellformed"})
    /\ duration_minutes \in durations
    /\ time_step \in steps
    /\ selected_tz \in zones
    /\ start_time \in starts
    /\ pc = "start"
    /\ selected_satellite_name = NoText
    /\ satellite = NoSatellite
    /\ fetches = 0
    /\ minutes = <<>>
    /\ observation_times = <<>>
    /\ lats = <<>>
    /\ lons = <<>>
    /\ altitudes = <<>>
    /\ timestamps = <<>>
    /\ df = NoFrame
    /\ out = <<>>
    /\ plotted = NoPlot
    /\ info = NoInfo
    /\ table = NoFrame
    /\ csv = <<>>
    /\ file_name = NoText
    /\ raised = None

Zones == {timezone_list[k] : k \in 1..Len(timezone_list)}

Init == InitOf(SomeNames, SomeDurations, SomeTimeSteps, Zones, StartTimes)

\* src/main.py:12-24: page title, sidebar header, the custom-TLE checkbox
Intro ==
    /\ pc = "start"
    /\ out' = out \o <<"title", "sidebar_header", "custom_tle_checkbox">>
    /\ pc' = "acquire"
    /\ UNCHANGED <<raised, inputs, selected_satellite_name, satellite, fetches, minutes,
                   observation_times, lats, lons, altitudes, timestamps, df,
                   plotted, info, table, csv, file_name>>

AfterParseErrorContinue == "controls"

\* src/main.py:34-36: the except branch ends with st.stop()
AfterParseError == "stopped"

\* src/main.py:26-36: the custom TLE branch
CustomTLE ==
    /\ pc = "acquire"
    /\ use_custom_tle
    /\ IF EarthSatelliteRaises(tle_text)
       THEN /\ out' = out \o <<"name_input", "line1_input", "line2_input",
                               "sidebar_error">>
            /\ pc' = AfterParseError
            /\ UNCHANGED <<satellite, selected_satellite_name>>
       ELSE /\ out' = out \o <<"name_input", "line1_input", "line2_input">>
            /\ satellite' = [name |-> tle_name, from |-> "custom"]
            /\ selected_satellite_name' = tle_name
            /\ pc' = "controls"
    /\ UNCHANGED <<raised, inputs, fetches, minutes, observation_times, lats, lons,
                   altitudes, timestamps, df, plotted, info, table, csv,
                   file_name>>

tle_file_retry(result) == IF result.raised THEN 2 ELSE 1

\* src/main.py:40: the number of downloads one call of load.tle_file issues
tle_file(result) == 1

FetchFailureReported(o) == o \o <<"sidebar_error">>

\* src/main.py:38-40: what the page shows when load.tle_file raises: the
\* call is in no try block, so the script adds nothing and ends there
FetchFailure(o) == o

\* src/main.py:37-44: the catalog branch
FetchCatalog ==
    /\ pc = "acquire"
    /\ ~use_custom_tle
    /\ \E result \in FetchResults :
          /\ fetches' = fetches + tle_file(result)
          /\ IF result.raised
             THEN /\ out' = FetchFailure(out)
                  /\ raised' = "tle_file"
                  /\ pc' = "crashed"
                  /\ UNCHANGED <<satellite, selected_satellite_name>>
             ELSE LET by_name == result.by_name
                  IN  IF by_name = {}
                      \* selectbox over no options returns None and
                      \* by_name[None] raises KeyError
                      THEN /\ out' = out \o <<"satellite_selector">>
                           /\ raised' = "KeyError"
                           /\ pc' = "crashed"
                           /\ UNCHANGED <<satellite, selected_satellite_name>>
                      ELSE \E name \in by_name :
                              /\ out' = out \o <<"satellite_selector">>
                              /\ selected_satellite_name' = name
                              /\ satellite' = [name |-> name, from |-> "catalog"]
                              /\ raised' = raised
                              /\ pc' = "controls"
    /\ UNCHANGED <<inputs, minutes, observation_times, lats, lons, altitudes,
                   timestamps, df, plotted, info, table, csv, file_name>>

\* src/main.py:46-53: the two sliders and the timezone selector
Controls ==
    /\ pc = "controls"
    /\ out' = out \o <<"duration_slider", "time_step_slider", "timezone_selector">>
    /\ pc' = "times"
    /\ UNCHANGED <<raised, inputs, selected_satellite_name, satellite, fetches, minutes,
                   observation_times, lats, lons, altitudes, timestamps, df,
                   plotted, info, table, csv, file_name>>

arange_inclusive(start, stop, step) ==
    [k \in 1..((stop - start) \div step + 1) |-> start + (k - 1) * step]

\* np.arange(start, stop, step), src/main.py:58: ceil((stop - start) / step)
\* values start, start + step, ...
arange(start, stop, step) ==
    [k \in 1..((stop - start + step - 1) \div step) |-> start + (k - 1) * step]

ts_utc_with_seconds(dt, second) ==
    Epoch(<<dt[1], dt[2], dt[3], dt[4], dt[5], 0>>) + dt[6] + second

\* ts.utc(year, month, day, hour, minute, second), src/main.py:59-60: the
\* start's second is not passed; a second beyond 59 carries over
ts_utc(dt, second) ==
    Epoch(<<dt[1], dt[2], dt[3], dt[4], dt[5], 0>>) + second

\* src/main.py:56-62
ComputeTimes ==
    /\ pc = "times"
    /\ minutes' = arange(0, duration_minutes * 60, time_step)
    /\ observation_times' =
          [k \in 1..Len(minutes') |-> ts_utc(start_time, minutes'[k])]
    /\ lats' = <<>>
    /\ lons' = <<>>
    /\ altitudes' = <<>>
    /\ timestamps' = <<>>
    /\ pc' = "loop"
    /\ UNCHANGED <<raised, inputs, selected_satellite_name, satellite, fetches, df, out,
                   plotted, info, table, csv, file_name>>

(* satellite.at(t).subpoint(), src/main.py:64: the propagation library's    *)
(* answer, a function of the satellite and the instant.  Whole degrees and  *)
(* kilometres of a stand-in track; the script only carries the values.      *)
subpoint(sat, t) ==
    LET phase == Len(sat.name)
        x     == (t \div 60 + phase) % 204
    IN  [latitude  |-> IF x <= 102 THEN x - 51 ELSE 153 - x,
         longitude |-> ((t \div 15 + 7 * phase) % 360) - 180,
         elevation |-> 400 + ((t \div 300) % 20)]

\* The digits of a date-time written year, month, day, then hour, minute,
\* second, each field zero padded: '%Y-%m-%d %H:%M:%S' and the ISO form
\* '%Y-%m-%dT%H:%M:%SZ' differ only in the separators.
Digits(dt) ==
    <<dt[1] * 10000 + dt[2] * 100 + dt[3], dt[4] * 10000 + dt[5] * 100 + dt[6]>>

\* t.utc_iso(), src/main.py:68: the instant's UTC date and time
utc_iso(t) == Digits(Fields(t))

\* datetime.strptime(text, "%Y-%m-%dT%H:%M:%SZ"), src/main.py:68
strptime(text) ==
    <<text[1] \div 10000, (text[1] \div 100) % 100, text[1] % 100,
      text[2] \div 10000, (text[2] \div 100) % 100, text[2] % 100>>

\* .replace(tzinfo=pytz.utc).astimezone(tz), src/main.py:68
astimezone(dt, zone) == Fields(Epoch(dt) + utcoffset(zone, Epoch(dt)))

\* strftime('%Y-%m-%d %H:%M:%S'), src/main.py:69 and 102
strftime(dt) == Digits(dt)

insert_front(list, v) == <<v>> \o list

\* list.append, src/main.py:65-69
append(list, v) == Append(list, v)

i == Len(timestamps)

\* src/main.py:63-69: one iteration of the loop over observation_times
PropagateStep ==
    /\ pc = "loop"
    /\ i < Len(observation_times)
    /\ LET t  == observation_times[i + 1]
           sp == subpoint(satellite, t)
           local_time == astimezone(strptime(utc_iso(t)), selected_tz)
       IN  /\ lats' = append(lats, sp.latitude)
           /\ lons' = append(lons, sp.longitude)
           /\ altitudes' = append(altitudes, sp.elevation)
           /\ timestamps' = append(timestamps, strftime(local_time))
    /\ UNCHANGED <<raised, inputs, pc, selected_satellite_name, satellite, fetches,
                   minutes, observation_times, df, out, plotted, info, table,
                   csv, file_name>>

\* src/main.py:63-69: an iteration that raises, either in the propagation
\* (line 64, before any append) or in the conversion of the time (line 68,
\* after the three appends of lines 65-67)
PropagateFail ==
    /\ pc = "loop"
    /\ i < Len(observation_times)
    /\ \E at \in {"subpoint", "local_time"} :
          LET sp == subpoint(satellite, observation_times[i + 1])
          IN  /\ raised' = at
              /\ IF at = "subpoint"
                 THEN UNCHANGED <<lats, lons, altitudes>>
                 ELSE /\ lats' = append(lats, sp.latitude)
                      /\ lons' = append(lons, sp.longitude)
                      /\ altitudes' = append(altitudes, sp.elevation)
    /\ pc' = "crashed"
    /\ UNCHANGED <<inputs, selected_satellite_name, satellite, fetches, minutes,
                   observation_times, timestamps, df, out, plotted, info,
                   table, csv, file_name>>

Columns == <<"Timestamp", "Latitude", "Longitude", "Altitude (km)">>

\* pd.DataFrame({...}), src/main.py:72-77: the columns in the order given,
\* row k made of the k-th entry of each list
DataFrame(ts, la, lo, al) ==
    [columns |-> Columns,
     rows    |-> [k \in 1..Len(ts) |-> <<ts[k], la[k], lo[k], al[k]>>]]

exhausted_early(k, times) == k <= Len(times)

\* src/main.py:63: the for loop ends when every instant has been visited
exhausted(k, times) == k = Len(times)

\* src/main.py:63 and 72-77: the loop is over, the table is built
BuildDataFrame ==
    /\ pc = "loop"
    /\ exhausted(i, observation_times)
    /\ df' = DataFrame(timestamps, lats, lons, altitudes)
    /\ pc' = "plot"
    /\ UNCHANGED <<raised, inputs, selected_satellite_name, satellite, fetches, minutes,
                   observation_times, lats, lons, altitudes, timestamps, out,
                   plotted, info, table, csv, file_name>>

\* src/main.py:79-93: the subheader and the scatter_geo figure of df
Plot ==
    /\ pc = "plot"
    /\ plotted' = [title |-> selected_satellite_name, bound |-> TRUE,
                   points |-> [k \in 1..Len(df.rows) |->
                                 [lat |-> df.rows[k][2], lon |-> df.rows[k][3],
                                  color |-> df.rows[k][4], hover |-> df.rows[k][1]]]]
    /\ out' = out \o <<"subheader", "plot">>
    /\ pc' = "info"
    /\ UNCHANGED <<raised, inputs, selected_satellite_name, satellite, fetches, minutes,
                   observation_times, lats, lons, altitudes, timestamps, df,
                   info, table, csv, file_name>>

\* src/main.py:95-102: the "Current Simulation Info" block
Info ==
    /\ pc = "info"
    /\ info' = [satellite |-> selected_satellite_name,
                start |-> strftime(start_time),
                duration |-> duration_minutes,
                step |-> time_step]
    /\ out' = out \o <<"info">>
    /\ pc' = "table"
    /\ UNCHANGED <<raised, inputs, selected_satellite_name, satellite, fetches, minutes,
                   observation_times, lats, lons, altitudes, timestamps, df,
                   plotted, table, csv, file_name>>

\* src/main.py:104-106: the expander with st.dataframe(df)
ShowTable ==
    /\ pc = "table"
    /\ table' = df
    /\ out' = out \o <<"table">>
    /\ pc' = "download"
    /\ UNCHANGED <<raised, inputs, selected_satellite_name, satellite, fetches, minutes,
                   observation_times, lats, lons, altitudes, timestamps, df,
                   plotted, info, csv, file_name>>

to_csv_with_index(d) ==
    <<(<<"">> \o d.columns)>> \o [k \in 1..Len(d.rows) |-> <<k - 1>> \o d.rows[k]]

\* df.to_csv(index=False), src/main.py:109: a header line of the column
\* names, then one line per row, each line the sequence of its cells
to_csv(d) == <<d.columns>> \o d.rows

\* src/main.py:108-115: the CSV export and the download button
Download ==
    /\ pc = "download"
    /\ csv' = to_csv(df)
    /\ file_name' = FileName(selected_satellite_name)
    /\ out' = out \o <<"download_button">>
    /\ pc' = "footer"
    /\ UNCHANGED <<raised, inputs, selected_satellite_name, satellite, fetches, minutes,
                   observation_times, lats, lons, altitudes, timestamps, df,
                   plotted, info, table>>

\* src/main.py:117-121
Footer ==
    /\ pc = "footer"
    /\ out' = out \o <<"footer">>
    /\ pc' = "done"
    /\ UNCHANGED <<raised, inputs, selected_satellite_name, satellite, fetches, minutes,
                   observation_times, lats, lons, altitudes, timestamps, df,
                   plotted, info, table, csv, file_name>>

Next ==
    \/ Intro
    \/ CustomTLE
    \/ FetchCatalog
    \/ Controls
    \/ ComputeTimes
    \/ PropagateStep
    \/ PropagateFail
    \/ BuildDataFrame
    \/ Plot
    \/ Info
    \/ ShowTable
    \/ Download
    \/ Footer

Spec == Init /\ [][Next]_vars

\* Every position of both sliders, one name, one zone, one clock reading.
InitGrid ==
    InitOf({DefaultName}, Durations, TimeSteps, {"UTC"}, {<<2026, 10, 31, 12, 0, 0>>})

SpecGrid == InitGrid /\ [][Next]_vars

\* Every name over Alphabet up to MaxNameLen characters.
InitNames ==
    InitOf(TextsUpTo(MaxNameLen), {DurationMin}, {StepMax}, {"UTC"},
           {<<2026, 10, 31, 12, 0, 0>>})

SpecNames == InitNames /\ [][Next]_vars

-----------------------------------------------------------------------------
(* Properties.                                                              *)

Has(seq, e) == \E k \in 1..Len(seq) : seq[k] = e

Pos(seq, e) == CHOOSE k \in 1..Len(seq) : seq[k] = e

\* The order of two formatted date-time strings of the same fixed width.
StrLess(a, b) ==
    \E k \in 1..Len(a) : a[k] < b[k] /\ \A j \in 1..(k - 1) : a[j] = b[j]

Ended == pc \in {"done", "stopped", "crashed"}

\* The instant of the start time with its seconds dropped.
start_minute == Epoch(<<start_time[1], start_time[2], start_time[3],
                        start_time[4], start_time[5], 0>>)

(* C1: for every slider position of duration and time step, the table of a  *)
(* render that gets as far as building it has exactly one row per second    *)
(* offset k * time_step, k >= 0, below duration_minutes * 60 (end point     *)
(* excluded): ceil(duration_minutes * 60 / time_step) rows, never zero.     *)
C1_OneRowPerTimeStep ==
    df # NoFrame =>
        LET n    == Len(df.rows)
            stop == duration_minutes * 60
        IN  /\ duration_minutes \in Durations
            /\ time_step \in TimeSteps
            /\ n >= 1
            /\ (n - 1) * time_step < stop
            /\ n * time_step >= stop
            /\ Len(minutes) = n
            /\ Len(observation_times) = n
            /\ \A k \in 1..n :
                  /\ minutes[k] = (k - 1) * time_step
                  /\ observation_times[k] = start_minute + (k - 1) * time_step
                  /\ Epoch(strptime(df.rows[k][1]))
                        = observation_times[k]
                          + utcoffset(selected_tz, observation_times[k])

\* C1's case: 40 minutes at 70 seconds, 2400 / 70 rounded up is 35 rows.
C1_Witness ==
    /\ pc = "done"
    /\ duration_minutes = 40
    /\ time_step = 70
    /\ Len(df.rows) = 35

(* C2: the Timestamp column of the table is strictly increasing from each   *)
(* row to the next, for every display timezone, also when the window spans  *)
(* a change of the zone's UTC offset.                                       *)
C2_TimestampsStrictlyIncreasing ==
    df # NoFrame =>
        \A k \in 1..(Len(df.rows) - 1) : StrLess(df.rows[k][1], df.rows[k + 1][1])

(* C3: with the custom TLE option on and a TLE text that EarthSatellite     *)
(* rejects, the render shows a sidebar error and halts there: no            *)
(* propagation step, plot, table or download button in that render.         *)
C3_MalformedTLEHalts ==
    (use_custom_tle /\ EarthSatelliteRaises(tle_text) /\ pc \notin {"start", "acquire"}) =>
        /\ pc = "stopped"
        /\ raised = None
        /\ out[Len(out)] = "sidebar_error"
        /\ ~Has(out, "plot") /\ ~Has(out, "table") /\ ~Has(out, "download_button")
        /\ observation_times = <<>>
        /\ lats = <<>> /\ lons = <<>> /\ altitudes = <<>> /\ timestamps = <<>>
        /\ df = NoFrame /\ plotted = NoPlot /\ table = NoFrame /\ csv = <<>>
        /\ satellite = NoSatellite

C3_Witness ==
    /\ pc = "stopped"
    /\ use_custom_tle
    /\ tle_text = "malformed"
    /\ Has(out, "sidebar_error")

(* C4: in a render that gets to the download button, the CSV holds a header *)
(* of exactly the four columns Timestamp, Latitude, Longitude,              *)
(* Altitude (km) and then the rows of the displayed table, all of them, in  *)
(* the same order, with no index cell; the plot shows the same rows.        *)
C4_CsvMatchesTable ==
    csv # <<>> =>
        /\ table # NoFrame /\ plotted # NoPlot
        /\ csv[1] = <<"Timestamp", "Latitude", "Longitude", "Altitude (km)">>
        /\ csv[1] = table.columns
        /\ Len(csv) = Len(table.rows) + 1
        /\ Len(plotted.points) = Len(table.rows)
        /\ \A k \in 1..Len(table.rows) :
              /\ Len(csv[k + 1]) = 4
              /\ csv[k + 1] = table.rows[k]
              /\ plotted.points[k].hover = csv[k + 1][1]
              /\ plotted.points[k].lat = csv[k + 1][2]
              /\ plotted.points[k].lon = csv[k + 1][3]
              /\ plotted.points[k].color = csv[k + 1][4]

C4_Witness ==
    /\ pc = "done"
    /\ Len(csv) = 16
    /\ Len(table.rows) = 15

\* The character is an upper-case letter that has a lower-case form:
\* str.lower() changes it.
Lowerable(c) == LowerChar(c) # c

\* Upper-case letters: those with a lower-case form, and U+03D2 (GREEK
\* UPSILON WITH HOOK SYMBOL, category Lu, str.isupper() is True), which has
\* none.
UpperCase(c) == Lowerable(c) \/ c = UpsilonHook

C5_Named ==
    LET name == selected_satellite_name
        n    == Len(file_name) - Len(Suffix)
        stem == SubSeq(file_name, 1, n)
    IN  /\ Len(name) <= n /\ n <= 2 * Len(name)
        /\ \A k \in 1..Len(Suffix) : file_name[n + k] = Suffix[k]
        /\ stem = lower(replace(name, Space, Underscore))
        /\ ~Has(file_name, Space)
        /\ (\A k \in 1..Len(name) : name[k] # CapitalIDot) =>
              /\ n = Len(name)
              /\ \A k \in 1..n :
                    /\ name[k] = Space => stem[k] = Underscore
                    /\ (~Lowerable(name[k]) /\ name[k] # Space) => stem[k] = name[k]
                    /\ Lowerable(name[k]) =>
                          stem[k] # name[k] /\ ~UpperCase(stem[k])

(* C5 as stated: the file name is the satellite's name with spaces replaced *)
(* by underscores and lower-cased, followed by '_ground_track.csv', and so  *)
(* holds no space and no upper-case letter.                                 *)
C5_NoSpaceNoUpperCase ==
    file_name # NoText =>
        /\ C5_Named
        /\ \A k \in 1..Len(file_name) : ~UpperCase(file_name[k])

(* C5 amended: the file name is the satellite's name with spaces replaced   *)
(* by underscores and str.lower() applied, followed by '_ground_track.csv'; *)
(* it holds no space and no upper-case letter that has a lower-case form.   *)
C5_NoSpaceNoLowerableUpperCase ==
    file_name # NoText =>
        /\ C5_Named
        /\ \A k \in 1..Len(file_name) : ~Lowerable(file_name[k])

\* C5's case: a space, an ASCII capital and a capital sigma ending a word.
C5_Witness ==
    /\ pc = "done"
    /\ selected_satellite_name = <<65, CapitalSigma, Space>>
    /\ file_name = <<97, FinalSigma, Underscore>> \o Suffix

(* C6: with the custom TLE option off, a failed download of the catalog is  *)
(* not handled: the script shows no sidebar error, the render ends with the *)
(* exception, and it has no satellite selector, plot, table or download     *)
(* button.                                                                  *)
C6_FetchFailureUnhandled ==
    raised = "tle_file" =>
        /\ ~use_custom_tle
        /\ pc = "crashed"
        /\ out = <<"title", "sidebar_header", "custom_tle_checkbox">>
        /\ ~Has(out, "sidebar_error")
        /\ ~Has(out, "satellite_selector")
        /\ ~Has(out, "plot") /\ ~Has(out, "table") /\ ~Has(out, "download_button")
        /\ satellite = NoSatellite
        /\ df = NoFrame /\ plotted = NoPlot /\ table = NoFrame /\ csv = <<>>

C6_Witness ==
    /\ raised = "tle_file"
    /\ pc = "crashed"
    /\ fetches = 1

(* C7 as stated: every render issues exactly one fetch of the catalog,      *)
(* whichever input mode is chosen.                                          *)
C7_ExactlyOneFetchEveryRender ==
    Ended => fetches = 1

(* C7 amended: a render issues the catalog fetch exactly once when the      *)
(* catalog mode is chosen and not at all when the custom TLE mode is        *)
(* chosen; it never issues a second fetch, whether the first one failed or  *)
(* not.                                                                     *)
C7_OneFetchInCatalogMode ==
    /\ fetches <= 1
    /\ pc \notin {"start", "acquire"} =>
          fetches = (IF use_custom_tle THEN 0 ELSE 1)
    /\ raised = "tle_file" => fetches = 1

C7_Witness ==
    /\ Ended
    /\ raised = "tle_file"
    /\ ~use_custom_tle
    /\ fetches = 1

IsPrefix(a, b) == Len(a) <= Len(b) /\ \A k \in 1..Len(a) : b[k] = a[k]

(* C8: each iteration of the loop only appends one value to each of the     *)
(* four lists, so earlier entries never change and after every iteration    *)
(* that completes the four lists are equally long; once the table is built  *)
(* the plot, the info block, the table display and the CSV export leave it  *)
(* as it is, its row k holding the k-th entry of each list.                 *)
C8_AppendOnlyThenFrozen ==
    [][ /\ IsPrefix(lats, lats') /\ IsPrefix(lons, lons')
        /\ IsPrefix(altitudes, altitudes') /\ IsPrefix(timestamps, timestamps')
        /\ (pc = "loop" /\ pc' = "loop") =>
              /\ Len(timestamps') = Len(timestamps) + 1
              /\ Len(lats') = Len(timestamps')
              /\ Len(lons') = Len(timestamps')
              /\ Len(altitudes') = Len(timestamps')
              /\ strptime(timestamps'[Len(timestamps')])
                    = Fields(observation_times[Len(timestamps')]
                             + utcoffset(selected_tz,
                                         observation_times[Len(timestamps')]))
        /\ df # NoFrame =>
              /\ df' = df
              /\ Len(df.rows) = Len(observation_times)
              /\ \A k \in 1..Len(df.rows) :
                    df.rows[k] = <<timestamps[k], lats[k], lons[k], altitudes[k]>>
      ]_vars

C8_Witness ==
    /\ pc = "done"
    /\ Len(timestamps) = 22
    /\ Len(df.rows) = 22
    /\ csv # <<>>
    /\ df.rows[22] = <<timestamps[22], lats[22], lons[22], altitudes[22]>>

(* C9: the first sampled instant is the start time with its seconds         *)
(* dropped, and sample k follows k * time_step seconds later; so the first  *)
(* sample is at or before the start time shown in the info block, less      *)
(* than 60 seconds before it, and equal to it only when the render starts   *)
(* at second 0 of a minute.                                                 *)
C9_StartTruncatedToMinute ==
    /\ observation_times # <<>> =>
          LET first == observation_times[1]
          IN  /\ Fields(first)[6] = 0
              /\ \A e \in 1..5 : Fields(first)[e] = start_time[e]
              /\ first <= Epoch(start_time)
              /\ \A k \in 1..Len(observation_times) :
                    observation_times[k] = first + (k - 1) * time_step
    /\ info # NoInfo =>
          LET first == Epoch(strptime(df.rows[1][1]))
                         - utcoffset(selected_tz, observation_times[1])
              shown == Epoch(strptime(info.start))
          IN  /\ first = observation_times[1]
              /\ shown = Epoch(start_time)
              /\ first <= shown
              /\ shown - first < 60
              /\ (first = shown) <=> (start_time[6] = 0)

C9_Witness ==
    /\ pc = "done"
    /\ start_time[6] = 59
    /\ Epoch(strptime(info.start)) - observation_times[1] = 59

(* C10: the plot, the table and the download button are all produced, in    *)
(* that order and only once every row has been computed, or none of them    *)
(* is: a render that ended shows all three or none, whatever the TLE        *)
(* parse, the catalog fetch and each propagation step did.                  *)
C10_AllOrNothing ==
    /\ Has(out, "plot") =>
          /\ Len(observation_times) >= 1
          /\ Len(df.rows) = Len(observation_times)
          /\ Len(plotted.points) = Len(observation_times)
          /\ raised = None
    /\ Has(out, "table") =>
          /\ Has(out, "plot") /\ Pos(out, "plot") < Pos(out, "table")
          /\ Len(table.rows) = Len(observation_times)
    /\ Has(out, "download_button") =>
          /\ Has(out, "table") /\ Pos(out, "table") < Pos(out, "download_button")
          /\ Len(csv) = Len(observation_times) + 1
    /\ Ended =>
          \/ Has(out, "plot") /\ Has(out, "table") /\ Has(out, "download_button")
          \/ ~Has(out, "plot") /\ ~Has(out, "table") /\ ~Has(out, "download_button")
    /\ raised # None => Ended /\ ~Has(out, "plot")

\* C10's case: a propagation step raised after part of the track was
\* computed, and the render shows none of the three.
C10_Witness ==
    /\ pc = "crashed"
    /\ raised = "local_time"
    /\ Len(timestamps) = 7
    /\ Len(lats) = 8
    /\ ~Has(out, "plot")

====
